---- MODULE Spec2Model ----
(***************************************************************************)
(* Civic.AI dashboard (telynxstuff.py): transcript classification,         *)
(* Telegram message formatting and dispatch.                               *)
(*                                                                         *)
(* Text is modelled as a sequence of one-character strings so that         *)
(* substring search, regular-expression matching, case conversion and      *)
(* slicing are computed character by character as Python computes them.    *)
(***************************************************************************)
EXTENDS Integers, Sequences, FiniteSets, TLC

VARIABLES
    transcript_input,   \* text of the "Call Transcript" text area
    civic_info,         \* result of extract_civic_info, or NoInfo
    call_metadata,      \* optional call metadata handed to the formatter
    now,                \* wall clock read by datetime.now()
    telegram_message,   \* result of format_telegram_message, or NoMessage
    telegram_token,     \* "Telegram Bot Token" text input
    telegram_channel,   \* "Telegram Channel/Chat ID" text input
    pc,                 \* position of the running handler
    calls,              \* number of send_to_telegram calls made
    requests,           \* number of requests.post calls issued
    response,           \* what requests.post gave the current call, or NoResponse
    returned,           \* "True" / "False" returned by send_to_telegram, or "none"
    surfaced,           \* st.error message shown by the last send_to_telegram
    indicator           \* status block shown by the button handler

vars == << transcript_input, civic_info, call_metadata, now, telegram_message,
           telegram_token, telegram_channel, pc, calls, requests, response,
           returned, surfaced, indicator >>

----------------------------------------------------------------------------
(* Characters and Python string methods                                    *)

UpperChars == <<"A", "B", "C", "D", "E", "F", "G", "H", "I", "J", "K", "L", "M", "N", "O", "P", "Q", "R", "S", "T", "U", "V", "W", "X", "Y", "Z" >>

LowerChars == <<"a", "b", "c", "d", "e", "f", "g", "h", "i", "j", "k", "l", "m", "n", "o", "p", "q", "r", "s", "t", "u", "v", "w", "x", "y", "z" >>

DigitChars == <<"0", "1", "2", "3", "4", "5", "6", "7", "8", "9" >>

WhitespaceChars == {" ", "\t", "\n", "\r", "\f"}

RangeOf(s) == {s[i] : i \in 1..Len(s)}

IsUpper(c) == c \in RangeOf(UpperChars)

IsLower(c) == c \in RangeOf(LowerChars)

IsLetter(c) == IsUpper(c) \/ IsLower(c)

IsDigit(c) == c \in RangeOf(DigitChars)

IsSpace(c) == c \in WhitespaceChars

IndexIn(c, s) == CHOOSE i \in 1..Len(s) : s[i] = c

char_lower(c) == IF IsUpper(c) THEN LowerChars[IndexIn(c, UpperChars)] ELSE c

char_upper(c) == IF IsLower(c) THEN UpperChars[IndexIn(c, LowerChars)] ELSE c

\* str.lower()
str_lower(s) == [i \in 1..Len(s) |-> char_lower(s[i])]

\* str.title(): a cased character is upper-cased when the character before it
\* is not cased, and lower-cased when it is
str_title(s) ==
    [i \in 1..Len(s) |->
        IF i > 1 /\ IsLetter(s[i-1]) THEN char_lower(s[i]) ELSE char_upper(s[i])]

\* str.strip()
str_strip(s) ==
    LET keep == {i \in 1..Len(s) : ~IsSpace(s[i])}
    IN  IF keep = {} THEN << >>
        ELSE LET lo == CHOOSE i \in keep : \A j \in keep : i <= j
                 hi == CHOOSE i \in keep : \A j \in keep : i >= j
             IN  SubSeq(s, lo, hi)

\* keyword in text
str_contains(keyword, text) ==
    \E i \in 1..(Len(text) - Len(keyword) + 1) :
        \A j \in 1..Len(keyword) : text[i + j - 1] = keyword[j]

\* s[:n]
str_prefix(s, n) == SubSeq(s, 1, IF Len(s) < n THEN Len(s) ELSE n)

\* s.replace(old, new) for a one-character old
str_replace(s, old, new) ==
    LET F[i \in 0..Len(s)] ==
            IF i = 0 THEN << >>
            ELSE F[i-1] \o (IF s[i] = old THEN new ELSE << s[i] >>)
    IN  F[Len(s)]

----------------------------------------------------------------------------
(* extract_civic_info                                                      *)

issue_keywords ==
    << [name |-> "infrastructure", keywords |->
            << <<"r", "o", "a", "d" >>,
              <<"b", "r", "i", "d", "g", "e" >>,
              <<"w", "a", "t", "e", "r" >>,
              <<"e", "l", "e", "c", "t", "r", "i", "c", "i", "t", "y" >>,
              <<"p", "o", "w", "e", "r" >>,
              <<"d", "r", "a", "i", "n", "a", "g", "e" >> >>],
       [name |-> "security", keywords |->
            << <<"c", "r", "i", "m", "e" >>,
              <<"t", "h", "e", "f", "t" >>,
              <<"v", "i", "o", "l", "e", "n", "c", "e" >>,
              <<"u", "n", "s", "a", "f", "e" >>,
              <<"r", "o", "b", "b", "e", "r", "y" >>,
              <<"s", "e", "c", "u", "r", "i", "t", "y" >> >>],
       [name |-> "health", keywords |->
            << <<"h", "o", "s", "p", "i", "t", "a", "l" >>,
              <<"c", "l", "i", "n", "i", "c" >>,
              <<"m", "e", "d", "i", "c", "a", "l" >>,
              <<"h", "e", "a", "l", "t", "h" >>,
              <<"d", "i", "s", "e", "a", "s", "e" >>,
              <<"s", "a", "n", "i", "t", "a", "t", "i", "o", "n" >> >>],
       [name |-> "education", keywords |->
            << <<"s", "c", "h", "o", "o", "l" >>,
              <<"t", "e", "a", "c", "h", "e", "r" >>,
              <<"e", "d", "u", "c", "a", "t", "i", "o", "n" >>,
              <<"s", "t", "u", "d", "e", "n", "t" >>,
              <<"c", "l", "a", "s", "s", "r", "o", "o", "m" >> >>],
       [name |-> "waste", keywords |->
            << <<"g", "a", "r", "b", "a", "g", "e" >>,
              <<"w", "a", "s", "t", "e" >>,
              <<"d", "u", "m", "p" >>,
              <<"r", "e", "f", "u", "s", "e" >>,
              <<"s", "a", "n", "i", "t", "a", "t", "i", "o", "n" >>,
              <<"d", "i", "r", "t", "y" >> >>],
       [name |-> "other", keywords |->
            <<  >>] >>

priority_keywords ==
    << [name |-> "urgent", keywords |->
            << <<"e", "m", "e", "r", "g", "e", "n", "c", "y" >>,
              <<"u", "r", "g", "e", "n", "t" >>,
              <<"i", "m", "m", "e", "d", "i", "a", "t", "e" >>,
              <<"c", "r", "i", "t", "i", "c", "a", "l" >>,
              <<"d", "a", "n", "g", "e", "r" >> >>],
       [name |-> "high", keywords |->
            << <<"s", "e", "r", "i", "o", "u", "s" >>,
              <<"i", "m", "p", "o", "r", "t", "a", "n", "t" >>,
              <<"m", "a", "j", "o", "r" >>,
              <<"s", "i", "g", "n", "i", "f", "i", "c", "a", "n", "t" >> >>],
       [name |-> "medium", keywords |->
            << <<"m", "o", "d", "e", "r", "a", "t", "e" >>,
              <<"c", "o", "n", "c", "e", "r", "n" >>,
              <<"i", "s", "s", "u", "e" >> >>],
       [name |-> "low", keywords |->
            << <<"m", "i", "n", "o", "r" >>,
              <<"s", "m", "a", "l", "l" >>,
              <<"s", "l", "i", "g", "h", "t" >> >>] >>

any_keyword_in(keywords, text) ==
    \E k \in 1..Len(keywords) : str_contains(keywords[k], text)

\* for name, keywords in table.items(): if any(...): result = name; break
RECURSIVE first_match(_, _, _, _)
first_match(table, text, i, default) ==
    IF i > Len(table) THEN default
    ELSE IF any_keyword_in(table[i].keywords, text) THEN table[i].name
    ELSE first_match(table, text, i + 1, default)

\* the same loop without its break: the last matching entry wins
RECURSIVE last_match(_, _, _, _)
last_match(table, text, i, default) ==
    IF i > Len(table) THEN default
    ELSE LET rest == last_match(table, text, i + 1, default)
         IN  IF rest = default /\ any_keyword_in(table[i].keywords, text)
             THEN table[i].name ELSE rest

issue_category_no_break(transcript_lower) ==
    last_match(issue_keywords, transcript_lower, 1, "other")

issue_category(transcript_lower) ==
    first_match(issue_keywords, transcript_lower, 1, "other")

priority_default_low(transcript_lower) ==
    first_match(priority_keywords, transcript_lower, 1, "low")

priority_of(transcript_lower) ==
    first_match(priority_keywords, transcript_lower, 1, "medium")

\* the literal heads of the four patterns r'<head>\s+([A-Za-z\s]+)'
location_patterns ==
    << <<"i", "n" >>,
       <<"a", "t" >>,
       <<"f", "r", "o", "m" >>,
       <<"a", "r", "e", "a" >> >>

LocationNotSpecified == <<"L", "o", "c", "a", "t", "i", "o", "n", " ", "n", "o", "t", " ", "s", "p", "e", "c", "i", "f", "i", "e", "d" >>

InGroupClass(c) == IsLetter(c) \/ IsSpace(c)

SetMin(S) == CHOOSE x \in S : \A y \in S : x <= y

SetMax(S) == CHOOSE x \in S : \A y \in S : x >= y

\* number of consecutive whitespace characters of s from position j on
space_run(s, j) ==
    SetMin({e \in j..(Len(s) + 1) : e = Len(s) + 1 \/ ~IsSpace(s[e])}) - j

\* last position of the run of [A-Za-z\s] characters that starts at j
group_end(s, j) ==
    SetMin({e \in j..Len(s) : e = Len(s) \/ ~InGroupClass(s[e + 1])})

NoMatch == [found |-> FALSE, group |-> << >>, pos |-> 0]

\* the match of head\s+([A-Za-z\s]+) that starts at position i of s: \s+ is
\* greedy and gives characters back until the group can take at least one
re_match_at(head, s, i) ==
    IF ~(i + Len(head) - 1 <= Len(s) /\ SubSeq(s, i, i + Len(head) - 1) = head)
    THEN NoMatch
    ELSE LET from == i + Len(head)
             ws   == space_run(s, from)
             ks   == {k \in 1..ws : from + k <= Len(s) /\ InGroupClass(s[from + k])}
         IN  IF ks = {} THEN NoMatch
             ELSE LET k == SetMax(ks)
                  IN  [found |-> TRUE,
                       group |-> SubSeq(s, from + k, group_end(s, from + k)),
                       pos   |-> i]

\* re.findall(pattern, s)[0] when findall returns a non-empty list
re_findall_first(head, s) ==
    LET at == {i \in 1..Len(s) : re_match_at(head, s, i).found}
    IN  IF at = {} THEN NoMatch
        ELSE re_match_at(head, s, SetMin(at))

\* for pattern in location_patterns: if matches: location = ...; break
RECURSIVE location_from(_, _)
location_from(transcript, p) ==
    IF p > Len(location_patterns) THEN LocationNotSpecified
    ELSE LET m == re_findall_first(location_patterns[p], transcript)
         IN  IF m.found THEN str_title(str_strip(m.group))
             ELSE location_from(transcript, p + 1)

\* a single alternation in|at|from|area: the match leftmost in the text wins
location_leftmost(transcript) ==
    LET ms == {re_findall_first(location_patterns[p], transcript) :
                   p \in 1..Len(location_patterns)}
        fs == {m \in ms : m.found}
    IN  IF fs = {} THEN LocationNotSpecified
        ELSE LET m == CHOOSE x \in fs : \A y \in fs : x.pos <= y.pos
             IN  str_title(str_strip(m.group))

extract_location(transcript) == location_from(transcript, 1)

SummaryLimit == 200

Ellipsis == <<".", ".", "." >>

summary_off_by_one(transcript) ==
    IF Len(transcript) >= SummaryLimit
    THEN str_prefix(transcript, SummaryLimit) \o Ellipsis ELSE transcript

summary_of(transcript) ==
    IF Len(transcript) > SummaryLimit
    THEN str_prefix(transcript, SummaryLimit) \o Ellipsis ELSE transcript

extract_civic_info(transcript) ==
    LET transcript_lower == str_lower(transcript)
    IN  [category        |-> issue_category(transcript_lower),
         priority        |-> priority_of(transcript_lower),
         location        |-> extract_location(transcript),
         summary         |-> summary_of(transcript),
         full_transcript |-> transcript]

NoInfo == [category |-> "none"]

----------------------------------------------------------------------------
(* Classifier specification: extract_civic_info applied to transcripts     *)
(* assembled from a small vocabulary of text fragments                     *)

MaxFragments == 3

Filler == [i \in 1..(SummaryLimit \div 2) |-> "x"]

Fragments ==
    { <<"r", "o", "a", "d" >>,
      <<"T", "h", "e", "f", "t", "!" >>,
      <<"s", "a", "n", "i", "t", "a", "t", "i", "o", "n" >>,
      <<"u", "r", "g", "e", "n", "t" >>,
      <<"m", "i", "n", "o", "r", " ", "i", "s", "s", "u", "e" >>,
      <<" ", "i", "n", " " >>,
      <<" ", "a", "t", " " >>,
      <<" ", "f", "r", "o", "m", " " >>,
      <<"M", "a", "l", "a", "l", "i", " ", "a", "r", "e", "a", " " >>,
      <<"K", "A", "D", "U", "N", "A", " ", "n", "o", "r", "t", "h" >>,
      <<" " >>,
      Filler }

RECURSIVE Concats(_)
Concats(n) ==
    IF n = 0 THEN { << >> }
    ELSE LET prev == Concats(n - 1)
         IN  prev \cup {p \o f : p \in prev, f \in Fragments}

Transcripts == Concats(MaxFragments)

None == [absent |-> TRUE]

NoMessage == [received |-> "none"]

NoResponse == [kind |-> "none"]

Epoch == [year |-> 2024, month |-> 1, day |-> 1, hour |-> 0, minute |-> 0, second |-> 0]

InitClassify ==
    /\ transcript_input \in Transcripts
    /\ civic_info = NoInfo
    /\ call_metadata = None
    /\ now = Epoch
    /\ telegram_message = NoMessage
    /\ telegram_token = << >>
    /\ telegram_channel = << >>
    /\ pc = "idle"
    /\ calls = 0
    /\ requests = 0
    /\ response = NoResponse
    /\ returned = "none"
    /\ surfaced = "none"
    /\ indicator = "none"

\* civic_info = extract_civic_info(transcript)
Classify ==
    /\ civic_info = NoInfo
    /\ civic_info' = extract_civic_info(transcript_input)
    /\ UNCHANGED << transcript_input, call_metadata, now, telegram_message,
                    telegram_token, telegram_channel, pc, calls, requests,
                    response, returned, surfaced, indicator >>

NextClassify == Classify

SpecClassify == InitClassify /\ [][NextClassify]_vars

----------------------------------------------------------------------------
(* format_telegram_message                                                 *)

\* the characters of the category and priority names
Spelling ==
    [n \in {"infrastructure", "security", "health", "education", "waste", "other", "urgent", "high", "medium", "low"} |->
        CASE n = "infrastructure" -> <<"i", "n", "f", "r", "a", "s", "t", "r", "u", "c", "t", "u", "r", "e" >>
          [] n = "security" -> <<"s", "e", "c", "u", "r", "i", "t", "y" >>
          [] n = "health" -> <<"h", "e", "a", "l", "t", "h" >>
          [] n = "education" -> <<"e", "d", "u", "c", "a", "t", "i", "o", "n" >>
          [] n = "waste" -> <<"w", "a", "s", "t", "e" >>
          [] n = "other" -> <<"o", "t", "h", "e", "r" >>
          [] n = "urgent" -> <<"u", "r", "g", "e", "n", "t" >>
          [] n = "high" -> <<"h", "i", "g", "h" >>
          [] n = "medium" -> <<"m", "e", "d", "i", "u", "m" >>
          [] n = "low" -> <<"l", "o", "w" >>]

\* each emoji is one element of the text
category_emojis ==
    [n \in {"infrastructure", "security", "health", "education", "waste", "other"} |->
        CASE n = "infrastructure" -> "{building-construction}"
          [] n = "security"       -> "{police-light}"
          [] n = "health"         -> "{hospital}"
          [] n = "education"      -> "{graduation-cap}"
          [] n = "waste"          -> "{wastebasket}"
          [] n = "other"          -> "{memo}"]

priority_emojis ==
    [n \in {"urgent", "high", "medium", "low"} |->
        CASE n = "urgent" -> "{red-circle}"
          [] n = "high"   -> "{orange-circle}"
          [] n = "medium" -> "{yellow-circle}"
          [] n = "low"    -> "{green-circle}"]

\* dict.get(key, default)
dict_get(d, key, default) == IF key \in DOMAIN d THEN d[key] ELSE default

\* decimal digits of a natural number
RECURSIVE int_to_str(_)
int_to_str(n) ==
    IF n < 10 THEN << DigitChars[n + 1] >>
    ELSE int_to_str(n \div 10) \o << DigitChars[(n % 10) + 1] >>

\* str(value) of a dictionary value: an int or a str
py_str(v) == IF "int" \in DOMAIN v THEN int_to_str(v.int) ELSE v.str

\* %m, %d, %H, %M, %S: two digits, zero padded
pad2(n) == << DigitChars[((n \div 10) % 10) + 1], DigitChars[(n % 10) + 1] >>

\* %Y: four digits
pad4(n) == pad2(n \div 100) \o pad2(n % 100)

\* datetime.strftime("%Y-%m-%d %H:%M:%S")
strftime(d) ==
    pad4(d.year) \o << "-" >> \o pad2(d.month) \o << "-" >> \o pad2(d.day) \o << " " >>
        \o pad2(d.hour) \o << ":" >> \o pad2(d.minute) \o << ":" >> \o pad2(d.second)

ReportTag == <<"C", "V", "C", "-" >>

\* every separator removed
report_id_stripped(timestamp) ==
    ReportTag \o
    str_replace(str_replace(str_replace(timestamp, "-", << >>), ":", << >>), " ", << >>)

\* CVC-{timestamp.replace('-', '').replace(':', '').replace(' ', '-')}
report_id(timestamp) ==
    ReportTag \o
    str_replace(str_replace(str_replace(timestamp, "-", << >>), ":", << >>), " ", << "-" >>)

\* truth value of "if call_metadata": None and the empty dict are false
metadata_truthy(md) == md # None /\ DOMAIN md # {}

NotAvailable == [str |-> <<"N", "/", "A" >>]

DurationLabel == << "{mobile-phone}" >> \o <<" ", "*", "*", "C", "a", "l", "l", " ", "D", "u", "r", "a", "t", "i", "o", "n", ":", "*", "*", " " >>

CallerLabel == << "{telephone}" >> \o <<" ", "*", "*", "C", "a", "l", "l", "e", "r", " ", "I", "D", ":", "*", "*", " " >>

ReceivedLabel == << "{clock}" >> \o <<" ", "*", "*", "R", "e", "c", "e", "i", "v", "e", "d", ":", "*", "*", " " >>

ReportIdLabel == <<"*", "R", "e", "p", "o", "r", "t", " ", "I", "D", ":", " " >>

duration_line(md) ==
    IF metadata_truthy(md)
    THEN DurationLabel \o py_str(dict_get(md, "duration", NotAvailable))
             \o <<" ", "s", "e", "c", "o", "n", "d", "s" >>
    ELSE << >>

caller_line(md) ==
    IF metadata_truthy(md)
    THEN CallerLabel \o py_str(dict_get(md, "caller_id", NotAvailable))
    ELSE << >>

\* the message as its sequence of lines, after the final .strip()
format_telegram_message(info, md, clock) ==
    LET timestamp == strftime(clock)
    IN  << << "{classical-building}" >> \o <<" ", "*", "*", "C", "I", "V", "I", "C", " ", "V", "O", "I", "C", "E", " ", "R", "E", "P", "O", "R", "T", "*", "*" >>,
           << >>,
           << category_emojis[info.category] >> \o <<" ", "*", "*", "C", "a", "t", "e", "g", "o", "r", "y", ":", "*", "*", " " >>
               \o str_title(Spelling[info.category]),
           << priority_emojis[info.priority] >> \o <<" ", "*", "*", "P", "r", "i", "o", "r", "i", "t", "y", ":", "*", "*", " " >>
               \o str_title(Spelling[info.priority]),
           << "{pin}" >> \o <<" ", "*", "*", "L", "o", "c", "a", "t", "i", "o", "n", ":", "*", "*", " " >> \o info.location,
           ReceivedLabel \o timestamp,
           << >>,
           << "{telephone}" >> \o <<" ", "*", "*", "R", "e", "p", "o", "r", "t", " ", "S", "u", "m", "m", "a", "r", "y", ":", "*", "*" >>,
           info.summary,
           << >>,
           duration_line(md),
           caller_line(md),
           << >>,
           <<"-", "-", "-" >>,
           ReportIdLabel \o report_id(timestamp) \o << "*" >> >>

----------------------------------------------------------------------------
(* Formatter specification: format_telegram_message applied to classified  *)
(* reports, metadata records and clock readings                            *)

SampleTranscripts ==
    { << >>,
      <<"T", "h", "e", "f", "t", "!", " ", "a", "t", " ", "K", "A", "D", "U", "N", "A", " ", "n", "o", "r", "t", "h" >>,
      <<"E", "m", "e", "r", "g", "e", "n", "c", "y", "!", " ", "M", "a", "j", "o", "r", " ", "w", "a", "t", "e", "r", " ", "p", "i", "p", "e", " ", "b", "u", "r", "s", "t", " ", "i", "n", " ", "M", "a", "l", "a", "l", "i", " ", "a", "r", "e", "a", ",", " ", "u", "r", "g", "e", "n", "t", " ", "a", "t", "t", "e", "n", "t", "i", "o", "n", " ", "n", "e", "e", "d", "e", "d" >> }

\* metadata records: a dict over these keys, or None
MetadataKeys == {"duration", "caller_id", "call_id"}

MetadataValues(k) ==
    IF k = "duration" THEN {[int |-> 0], [int |-> 45], [int |-> 120]}
    ELSE IF k = "caller_id" THEN {[str |-> <<"+", "2", "3", "4", "8", "0", "1", "2", "3", "4", "5", "6", "7", "8" >>]}
    ELSE {[str |-> <<"v", "3", ":", "a", "b", "c" >>]}

MetadataRecords ==
    {None} \cup
    UNION {{d \in [K -> UNION {MetadataValues(k) : k \in MetadataKeys}] :
               \A k \in K : d[k] \in MetadataValues(k)} : K \in SUBSET MetadataKeys}

Clocks ==
    [year : {2024, 2026}, month : {1, 11}, day : {5, 31},
     hour : {0, 19}, minute : {0, 59}, second : {7}]

InitFormat ==
    /\ transcript_input \in SampleTranscripts
    /\ civic_info = extract_civic_info(transcript_input)
    /\ call_metadata \in MetadataRecords
    /\ now = Epoch
    /\ telegram_message = NoMessage
    /\ telegram_token = << >>
    /\ telegram_channel = << >>
    /\ pc = "idle"
    /\ calls = 0
    /\ requests = 0
    /\ response = NoResponse
    /\ returned = "none"
    /\ surfaced = "none"
    /\ indicator = "none"

\* telegram_message = format_telegram_message(civic_info, call_metadata)
Format ==
    /\ telegram_message = NoMessage
    /\ \E clock \in Clocks :
           /\ now' = clock
           /\ telegram_message' = format_telegram_message(civic_info, call_metadata, clock)
    /\ UNCHANGED << transcript_input, civic_info, call_metadata, telegram_token,
                    telegram_channel, pc, calls, requests, response, returned,
                    surfaced, indicator >>

NextFormat == Format

SpecFormat == InitFormat /\ [][NextFormat]_vars

----------------------------------------------------------------------------
(* validate_telegram_token, validate_chat_id, send_to_telegram             *)

IsTokenBodyChar(c) == IsLetter(c) \/ IsDigit(c) \/ c = "_" \/ c = "-"

\* length of the longest prefix of s whose characters all satisfy the class
digit_run(s) == SetMin({e \in 0..Len(s) : e = Len(s) \/ ~IsDigit(s[e + 1])})

body_run(s) == SetMin({e \in 0..Len(s) : e = Len(s) \/ ~IsTokenBodyChar(s[e + 1])})

\* re.match(r'^\d+:[A-Za-z0-9_-]+$', token): $ matches at the end of the string
\* and also just before a newline that ends the string
token_pattern_matches(token) ==
    LET d    == digit_run(token)
        rest == SubSeq(token, d + 2, Len(token))
        b    == body_run(rest)
        tail == SubSeq(rest, b + 1, Len(rest))
    IN  /\ d >= 1
        /\ d + 1 <= Len(token)
        /\ token[d + 1] = ":"
        /\ b >= 1
        /\ tail = << >> \/ tail = << "\n" >>

validate_telegram_token(token) ==
    IF token = << >> THEN FALSE ELSE token_pattern_matches(token)

\* str.isdigit()
str_isdigit(s) == s # << >> /\ \A i \in 1..Len(s) : IsDigit(s[i])

validate_chat_id(chat_id) ==
    IF chat_id = << >> THEN FALSE
    ELSE str_isdigit(chat_id) \/ chat_id[1] = "-"

StatusOK == 200

\* any 2xx status counts as delivered
response_ok_any_2xx(resp) == resp.kind = "status" /\ resp.status \in 200..299

\* response.status_code == 200
response_ok(resp) == resp.kind = "status" /\ resp.status = StatusOK

\* where it would go if the timeout were retried
after_timeout_retry == "post"

\* where send_to_telegram goes after requests.post timed out: it returns
after_timeout == "idle"

\* the st.error message send_to_telegram shows for what requests.post gave
error_shown(resp) ==
    IF response_ok(resp) THEN "none"
    ELSE IF resp.kind = "status" THEN "Telegram API Error"
    ELSE IF resp.kind = "timeout" THEN "Request timed out"
    ELSE "Telegram Error"

----------------------------------------------------------------------------
(* The dashboard: the configuration inputs, the transcript text area and   *)
(* the "Process Call Transcript" button handler                            *)

MaxCalls == 2

Tokens ==
    { << >>,
      <<"a", "b", "c" >>,
      <<"1", "2", "3", ":", "A", "b", "C", "-", "1", "_", "2" >>,
      <<"1", ":", "a", "\n" >>,
      <<"1", "2", ":" >>,
      <<":", "a", "b", "c" >>,
      <<"1", ":", "a", " ", "b" >> }

ChatIds ==
    { << >>,
      <<"a", "b", "c" >>,
      <<"-", "1", "0", "0", "2", "0", "0", "3", "0", "0" >>,
      <<"1", "2", "3", "4", "5" >>,
      <<"1", "2", "a" >> }

HandlerClocks ==
    { [year |-> 2026, month |-> 11, day |-> 5, hour |-> 19, minute |-> 59, second |-> 7],
      [year |-> 2024, month |-> 1, day |-> 31, hour |-> 0, minute |-> 0, second |-> 7] }

\* what requests.post can give: a response with a status code, a
\* requests.exceptions.Timeout, or any other exception
Responses ==
    {[kind |-> "status", status |-> s] : s \in {200, 204, 400, 500}}
        \cup {[kind |-> "timeout"], [kind |-> "exception"]}

Init ==
    /\ transcript_input \in SampleTranscripts
    /\ civic_info = NoInfo
    /\ call_metadata = None
    /\ now = Epoch
    /\ telegram_message = NoMessage
    /\ telegram_token = << >>
    /\ telegram_channel = << >>
    /\ pc = "idle"
    /\ calls = 0
    /\ requests = 0
    /\ response = NoResponse
    /\ returned = "none"
    /\ surfaced = "none"
    /\ indicator = "none"

\* a widget edit reruns the script: what the last button press rendered is gone
Rerun ==
    /\ civic_info' = NoInfo
    /\ telegram_message' = NoMessage
    /\ response' = NoResponse
    /\ returned' = "none"
    /\ surfaced' = "none"
    /\ indicator' = "none"
    /\ UNCHANGED << call_metadata, now, pc, calls, requests >>

EditToken ==
    /\ pc = "idle"
    /\ \E token \in Tokens : token # telegram_token /\ telegram_token' = token
    /\ Rerun
    /\ UNCHANGED << transcript_input, telegram_channel >>

EditChannel ==
    /\ pc = "idle"
    /\ \E chat_id \in ChatIds : chat_id # telegram_channel /\ telegram_channel' = chat_id
    /\ Rerun
    /\ UNCHANGED << transcript_input, telegram_token >>

EditTranscript ==
    /\ pc = "idle"
    /\ \E text \in SampleTranscripts : text # transcript_input /\ transcript_input' = text
    /\ Rerun
    /\ UNCHANGED << telegram_token, telegram_channel >>

\* the button handler up to the point where send_to_telegram either returns
\* False from validation or is about to call requests.post
ProcessCall ==
    /\ pc = "idle"
    /\ IF transcript_input # << >> /\ telegram_token # << >> /\ telegram_channel # << >>
       THEN /\ calls < MaxCalls
            /\ calls' = calls + 1
            /\ civic_info' = extract_civic_info(transcript_input)
            /\ \E clock \in HandlerClocks :
                   /\ now' = clock
                   /\ telegram_message' =
                          format_telegram_message(civic_info', None, clock)
            /\ response' = NoResponse
            /\ IF ~validate_telegram_token(telegram_token)
               THEN /\ surfaced' = "Invalid Telegram bot token format"
                    /\ returned' = "False"
                    /\ indicator' = "status-error"
                    /\ pc' = "idle"
               ELSE IF ~validate_chat_id(telegram_channel)
               THEN /\ surfaced' = "Invalid Telegram chat ID format"
                    /\ returned' = "False"
                    /\ indicator' = "status-error"
                    /\ pc' = "idle"
               ELSE /\ surfaced' = "none"
                    /\ returned' = "none"
                    /\ indicator' = "none"
                    /\ pc' = "post"
       ELSE /\ indicator' = "warning"
            /\ civic_info' = NoInfo
            /\ telegram_message' = NoMessage
            /\ response' = NoResponse
            /\ returned' = "none"
            /\ surfaced' = "none"
            /\ UNCHANGED << now, pc, calls >>
    /\ UNCHANGED << transcript_input, call_metadata, telegram_token,
                    telegram_channel, requests >>

\* requests.post(telegram_url, json = payload, timeout = 10) is issued
Post ==
    /\ pc = "post"
    /\ requests' = requests + 1
    /\ pc' = "waiting"
    /\ UNCHANGED << transcript_input, civic_info, call_metadata, now,
                    telegram_message, telegram_token, telegram_channel, calls,
                    response, returned, surfaced, indicator >>

\* requests.post returns or raises; send_to_telegram returns and the handler
\* shows its status block
Respond ==
    /\ pc = "waiting"
    /\ \E resp \in Responses :
           /\ response' = resp
           /\ pc' = IF resp.kind = "timeout" THEN after_timeout ELSE "idle"
           /\ IF pc' = "idle"
              THEN /\ returned' = IF response_ok(resp) THEN "True" ELSE "False"
                   /\ surfaced' = error_shown(resp)
                   /\ indicator' = IF returned' = "True" THEN "status-success" ELSE "status-error"
              ELSE UNCHANGED << returned, surfaced, indicator >>
    /\ UNCHANGED << transcript_input, civic_info, call_metadata, now,
                    telegram_message, telegram_token, telegram_channel, calls,
                    requests >>

Next ==
    \/ EditToken
    \/ EditChannel
    \/ EditTranscript
    \/ ProcessCall
    \/ Post
    \/ Respond

Spec == Init /\ [][Next]_vars

----------------------------------------------------------------------------
(* Properties of the classifier                                            *)

Classified == civic_info # NoInfo

CategoryOrder == << "infrastructure", "security", "health", "education", "waste" >>

PriorityOrder == << "urgent", "high", "medium", "low" >>

KeywordsOf(table, name) ==
    (CHOOSE e \in RangeOf(table) : e.name = name).keywords

\* some keyword of the named entry is a substring of the lower-cased text
HasKeywordLower(table, name, lower) ==
    LET kws == KeywordsOf(table, name)
    IN  \E k \in 1..Len(kws) : str_contains(kws[k], lower)

\* some keyword of the named entry is a case-insensitive substring of text
HasKeyword(table, name, text) == HasKeywordLower(table, name, str_lower(text))

\* the first name of order whose keywords match text, or default
FirstInOrder(table, order, text, default) ==
    LET lower == str_lower(text)
        hits  == {k \in 1..Len(order) : HasKeywordLower(table, order[k], lower)}
    IN  IF hits = {} THEN default ELSE order[SetMin(hits)]

\* C1: the category is the first of infrastructure, security, health,
\* education, waste whose keyword set has a case-insensitive substring match
\* in the transcript, and "other" when none has.
C1_CategoryFirstMatch ==
    Classified =>
        civic_info.category =
            FirstInOrder(issue_keywords, CategoryOrder, transcript_input, "other")

\* a classified transcript that matches two categories and got the earlier one
C1_Witness ==
    /\ Classified
    /\ HasKeyword(issue_keywords, "infrastructure", transcript_input)
    /\ HasKeyword(issue_keywords, "security", transcript_input)
    /\ ~str_contains(<<"t", "h", "e", "f", "t" >>, transcript_input)
    /\ civic_info.category = "infrastructure"

\* C2: the priority is the first of urgent, high, medium, low whose keyword
\* set has a case-insensitive substring match in the transcript, and "medium"
\* when none has; the empty transcript is classified other / medium.
C2_PriorityFirstMatch ==
    Classified =>
        /\ civic_info.priority =
               FirstInOrder(priority_keywords, PriorityOrder, transcript_input, "medium")
        /\ transcript_input = << >> =>
               civic_info.category = "other" /\ civic_info.priority = "medium"

\* a classified transcript without any priority keyword, and the empty one
C2_Witness ==
    /\ Classified
    /\ transcript_input = << >>
    /\ civic_info.priority = "medium"

\* the pattern heads in the order in, at, from, area
PatternOrder ==
    << <<"i", "n" >>, <<"a", "t" >>, <<"f", "r", "o", "m" >>, <<"a", "r", "e", "a" >> >>

PatternMatches(k, text) == re_findall_first(PatternOrder[k], text).found

\* C3: the first pattern in the order in, at, from, area that has any match
\* decides the location, which is that pattern's first match trimmed and
\* title-cased, whatever later patterns match; without a match the location
\* is "Location not specified".
C3_LocationFirstPattern ==
    Classified =>
        /\ \A k \in 1..Len(PatternOrder) :
               (PatternMatches(k, transcript_input)
                  /\ \A j \in 1..(k - 1) : ~PatternMatches(j, transcript_input))
               => civic_info.location =
                      str_title(str_strip(
                          re_findall_first(PatternOrder[k], transcript_input).group))
        /\ (\A k \in 1..Len(PatternOrder) : ~PatternMatches(k, transcript_input))
               => civic_info.location = LocationNotSpecified

\* the "in" pattern decided although the "at" pattern matches earlier in the text
C3_Witness ==
    /\ Classified
    /\ PatternMatches(1, transcript_input)
    /\ PatternMatches(2, transcript_input)
    /\ re_findall_first(PatternOrder[2], transcript_input).pos
           < re_findall_first(PatternOrder[1], transcript_input).pos
    /\ civic_info.location = <<"K", "a", "d", "u", "n", "a", " ", "N", "o", "r", "t", "h" >>

\* C4: a transcript of at most 200 characters is its own summary; a longer one
\* is summarised by its first 200 characters followed by "..." (203 characters);
\* full_transcript is the input.
C4_Summary ==
    Classified =>
        /\ civic_info.full_transcript = transcript_input
        /\ Len(transcript_input) <= SummaryLimit =>
               civic_info.summary = transcript_input
        /\ Len(transcript_input) > SummaryLimit =>
               /\ Len(civic_info.summary) = SummaryLimit + 3
               /\ SubSeq(civic_info.summary, 1, SummaryLimit)
                      = SubSeq(transcript_input, 1, SummaryLimit)
               /\ SubSeq(civic_info.summary, SummaryLimit + 1, SummaryLimit + 3)
                      = <<".", ".", "." >>

\* a classified transcript longer than 200 characters
C4_Witness ==
    /\ Classified
    /\ Len(transcript_input) > SummaryLimit
    /\ Len(civic_info.summary) = SummaryLimit + 3

\* C10: the location is never empty: it is the sentinel or a non-empty phrase
\* without leading or trailing whitespace.
C10_LocationNeverEmpty ==
    Classified =>
        /\ civic_info.location # << >>
        /\ ~IsSpace(civic_info.location[1])
        /\ ~IsSpace(civic_info.location[Len(civic_info.location)])

----------------------------------------------------------------------------
(* Properties of the formatter                                             *)

Formatted == telegram_message # NoMessage

DurationLineNo == 11

CallerLineNo == 12

ReceivedLineNo == 6

ReportIdLineNo == 15

MetadataSupplied == call_metadata # None

FieldText(key) ==
    IF key \in DOMAIN call_metadata THEN py_str(call_metadata[key])
    ELSE <<"N", "/", "A" >>

\* C5: with a metadata record supplied, the message has the call-duration line
\* and the caller-id line, "N/A" standing for each field the record lacks (also
\* when it has neither field); without metadata both lines are omitted.
C5_MetadataLines ==
    Formatted =>
        /\ MetadataSupplied =>
               /\ telegram_message[DurationLineNo]
                      = DurationLabel \o FieldText("duration") \o <<" ", "s", "e", "c", "o", "n", "d", "s" >>
               /\ telegram_message[CallerLineNo] = CallerLabel \o FieldText("caller_id")
        /\ ~MetadataSupplied =>
               /\ telegram_message[DurationLineNo] = << >>
               /\ telegram_message[CallerLineNo] = << >>

\* the timestamp shown on the 'Received' line
ReceivedTimestamp ==
    SubSeq(telegram_message[ReceivedLineNo], Len(ReceivedLabel) + 1,
           Len(telegram_message[ReceivedLineNo]))

\* the identifier on the last line, between "*Report ID: " and "*"
ReportIdentifier ==
    SubSeq(telegram_message[ReportIdLineNo], Len(ReportIdLabel) + 1,
           Len(telegram_message[ReportIdLineNo]) - 1)

DigitsOf(s) == SelectSeq(s, IsDigit)

\* C6: the report identifier is the tag followed by the 'Received' timestamp
\* with '-', ':' and the space stripped: the tag and the 14 timestamp digits.
C6_ReportIdDigitsOnly ==
    Formatted =>
        /\ ReportIdentifier = ReportTag \o DigitsOf(ReceivedTimestamp)
        /\ Len(ReportIdentifier) = Len(ReportTag) + 14

\* C6 as the code has it: '-' and ':' are stripped and the space between date
\* and time becomes one '-': the tag, the 8 date digits, '-', the 6 time digits.
C6_ReportIdDateDashTime ==
    Formatted =>
        /\ Len(ReceivedTimestamp) = 19
        /\ ReceivedTimestamp = strftime(now)
        /\ ReportIdentifier =
               ReportTag \o DigitsOf(SubSeq(ReceivedTimestamp, 1, 10)) \o << "-" >>
                   \o DigitsOf(SubSeq(ReceivedTimestamp, 12, 19))
        /\ Len(ReportIdentifier) = Len(ReportTag) + 15

\* a message generated at 2026-11-05 19:59:07
C6_Witness ==
    /\ Formatted
    /\ ReceivedTimestamp = <<"2", "0", "2", "6", "-", "1", "1", "-", "0", "5", " ", "1", "9", ":", "5", "9", ":", "0", "7" >>
    /\ ReportIdentifier = <<"C", "V", "C", "-", "2", "0", "2", "6", "1", "1", "0", "5", "-", "1", "9", "5", "9", "0", "7" >>

----------------------------------------------------------------------------
(* Properties of the dispatcher                                            *)

\* <one or more digits>:<one or more of letters, digits, '_', '-'> and nothing else
WellFormedToken(token) ==
    \E d \in 1..Len(token) :
        /\ \A i \in 1..d : IsDigit(token[i])
        /\ d + 2 <= Len(token)
        /\ token[d + 1] = ":"
        /\ \A i \in (d + 2)..Len(token) : IsTokenBodyChar(token[i])

\* non-empty, and all digits or beginning with a minus sign
WellFormedChatId(chat_id) ==
    /\ chat_id # << >>
    /\ (\A i \in 1..Len(chat_id) : IsDigit(chat_id[i])) \/ chat_id[1] = "-"

CredentialsWellFormed ==
    WellFormedToken(telegram_token) /\ WellFormedChatId(telegram_channel)

\* C7: a request is issued only with a well-formed token and destination; with
\* any other token or destination the call returns a failure and no request
\* is attempted.
C7_RequestOnlyIfWellFormed ==
    /\ pc \in {"post", "waiting"} => CredentialsWellFormed
    /\ (returned # "none" /\ ~CredentialsWellFormed) =>
           returned = "False" /\ response = NoResponse

\* C8: a call whose credentials pass validation issues one request and then
\* returns whatever requests.post gave; nothing issues a second request, so the
\* requests never outnumber the calls.
C8_SingleAttempt ==
    /\ [](requests <= calls)
    /\ [][ /\ ( /\ calls' = calls + 1
                /\ validate_telegram_token(telegram_token)
                /\ validate_chat_id(telegram_channel) ) => pc' = "post"
           /\ pc = "idle" => requests' = requests
           /\ pc = "post" => requests' = requests + 1 /\ pc' = "waiting"
           /\ pc = "waiting" =>
                  requests' = requests /\ pc' = "idle" /\ returned' \in {"True", "False"}
         ]_vars

\* a call that timed out has returned False after its one request
C8_Witness ==
    /\ pc = "idle"
    /\ response.kind = "timeout"
    /\ returned = "False"
    /\ calls = 1
    /\ requests = 1

Returned == pc = "idle" /\ returned # "none"

\* the handler's failure block reads "Failed to send report. Check your configuration."
ConfigurationProblemShown == indicator = "status-error"

\* the failure is an InvalidCredential one: validation failed, nothing was sent
InvalidCredentialFailure == returned = "False" /\ response = NoResponse

\* C9: dispatch returns success exactly on a success status and otherwise a
\* failure tagged with its kind, so that the caller's failure indicator tells a
\* configuration problem (InvalidCredential) from a delivery problem.
C9_FailureIndicatorTellsKind ==
    Returned =>
        /\ returned = "True" <=> (response.kind = "status" /\ response.status = StatusOK)
        /\ returned = "False" =>
               (ConfigurationProblemShown <=> InvalidCredentialFailure)

\* C9 as the code has it: dispatch always returns, True exactly on status 200 and
\* a bare False otherwise; the kind of failure is only in the error message
\* dispatch itself shows, and the caller's failure block is the same for all.
C9_BooleanResultErrorShown ==
    Returned =>
        /\ returned \in {"True", "False"}
        /\ returned = "True" <=> (response.kind = "status" /\ response.status = StatusOK)
        /\ returned = "True" => surfaced = "none" /\ indicator = "status-success"
        /\ returned = "False" =>
               /\ indicator = "status-error"
               /\ surfaced =
                      CASE response.kind = "none" ->
                               IF ~validate_telegram_token(telegram_token)
                               THEN "Invalid Telegram bot token format"
                               ELSE "Invalid Telegram chat ID format"
                        [] response.kind = "status" -> "Telegram API Error"
                        [] response.kind = "timeout" -> "Request timed out"
                        [] response.kind = "exception" -> "Telegram Error"
               /\ response.kind = "none" =>
                      ~(validate_telegram_token(telegram_token)
                          /\ validate_chat_id(telegram_channel))

\* the provider answered 500: False was returned and the API error was shown
C9_Witness ==
    /\ Returned
    /\ response = [kind |-> "status", status |-> 500]
    /\ returned = "False"
    /\ surfaced = "Telegram API Error"
    /\ indicator = "status-error"

====
